---- MODULE Spec2Model ----
(***************************************************************************)
(* The character progression and combat engine of Committed (src/game.py): *)
(* Item, Mob and Character, with the operations of Character as actions.   *)
(* A Python object is a record with the fields of the class; an Optional   *)
(* value is a sequence of length 0 (None) or 1.  The random module is an   *)
(* input of every call that draws from it: rnd says where in its range     *)
(* each draw of the call falls, the same place for all the randint of one  *)
(* call and the same place for all its choice; calls differ in it.         *)
(* xp is an integer, as it is for the integer amounts add_xp is given.     *)
(*                                                                         *)
(* character is the Character, last the record of the last call made on    *)
(* it (what it was given, what it returned and what it did on the way),    *)
(* calls the number of calls made.  game_state is the GameState of         *)
(* src/game_state.py, save_file the file it reads and writes, pc the place *)
(* the program is at and stored the save file as it was before the program *)
(* was first started.                                                      *)
(*                                                                         *)
(* Spec is the Character under any calls of its methods; AddXpSpec is one  *)
(* call of add_xp, an iteration of its loop at a time; SyncSpec adds       *)
(* sync_with_gitlab (src/committed.py) to the calls of Spec; SessionSpec   *)
(* is main of src/committed.py over a save file: load, the menu with its   *)
(* sync and its save, and the next run of the program; ResyncSpec is the   *)
(* same main with the client of src/gitlab_client.py and its server.       *)
(***************************************************************************)
EXTENDS Integers, Sequences, FiniteSets, TLC

VARIABLES character, last, calls, game_state, save_file, pc, stored

vars == <<character, last, calls, game_state, save_file, pc, stored>>

(***************************************************************************)
(* Bounds of the model.                                                    *)
(***************************************************************************)
\* the number of calls made on the character in one behaviour
MaxCalls == 3
\* the draws of the random module are positions 0 .. RandomScale in a range
RandomScale == 15
\* the levels at which the call of AddXpSpec is made
MaxLevel == 4
\* the number of calls made on the character in one behaviour of SyncSpec
MaxSyncCalls == 2
\* the number of syncs in one behaviour of SessionSpec
MaxSyncs == 1
\* the number of syncs in one behaviour of ResyncSpec
MaxResyncs == 2

(***************************************************************************)
(* Python built-ins and the random module.                                 *)
(***************************************************************************)
None == << >>

Some(x) == <<x>>

Max(a, b) == IF a >= b THEN a ELSE b

Min(a, b) == IF a <= b THEN a ELSE b

\* random.randint(a, b): the integer of a..b at position rnd.roll
randint(rnd, a, b) == a + (((b - a) * rnd.roll) \div RandomScale)

\* random.choice(seq): the element of a non-empty sequence at position rnd.pick
choice(rnd, seq) == seq[1 + (((Len(seq) - 1) * rnd.pick) \div RandomScale)]

\* random.random() < 0.3
drop_chance(rnd) == rnd.drop

\* int(x) of a real x >= 0 whose square is the integer n: the greatest
\* integer whose square is at most n, by bisection of lo .. hi - 1, where
\* lo * lo <= n < hi * hi
RECURSIVE int_sqrt(_, _, _)
int_sqrt(n, lo, hi) ==
    IF hi - lo <= 1
    THEN lo
    ELSE LET mid == (lo + hi) \div 2
         IN  IF mid * mid <= n THEN int_sqrt(n, mid, hi) ELSE int_sqrt(n, lo, mid)

\* dict.get(key, default), a dict being a function
dict_get(d, key, default) == IF key \in DOMAIN d THEN d[key] ELSE default

\* seq[:n]
Take(seq, n) == SubSeq(seq, 1, Min(n, Len(seq)))

(***************************************************************************)
(* Item and Mob.                                                           *)
(***************************************************************************)
Item(name, type, power, description) ==
    [name |-> name, type |-> type, power |-> power, description |-> description]

Mob(name, hp, max_hp, level) ==
    [name |-> name, hp |-> hp, max_hp |-> max_hp, level |-> level]

\* take_damage subtracting from max_hp instead of hp
take_damage_from_max(mob, damage) ==
    LET hp == Max(0, mob.max_hp - damage)
    IN  [mob |-> [mob EXCEPT !.hp = hp], defeated |-> hp <= 0]

\* take_damage without the clamp at 0
take_damage_unclamped(mob, damage) ==
    LET hp == mob.hp - damage
    IN  [mob |-> [mob EXCEPT !.hp = hp], defeated |-> hp <= 0]

\* take_damage reporting a defeat only when the damage exceeds the hp
take_damage_strict(mob, damage) ==
    LET hp == Max(0, mob.hp - damage)
    IN  [mob |-> [mob EXCEPT !.hp = hp], defeated |-> mob.hp - damage < 0]

\* Mob.take_damage: the mob after the hit and the value returned
take_damage(mob, damage) ==
    LET hp == Max(0, mob.hp - damage)
    IN  [mob |-> [mob EXCEPT !.hp = hp], defeated |-> hp <= 0]

(***************************************************************************)
(* Character.                                                              *)
(***************************************************************************)
LANGUAGE_CLASSES ==
    ("Python" :> "Wizard") @@ ("JavaScript" :> "Rogue") @@ ("TypeScript" :> "Rogue") @@
    ("Java" :> "Paladin") @@ ("C++" :> "Warrior") @@ ("C" :> "Warrior") @@
    ("Go" :> "Ranger") @@ ("Rust" :> "Blacksmith") @@ ("Ruby" :> "Bard") @@
    ("PHP" :> "Necromancer") @@ ("C#" :> "Cleric") @@ ("Swift" :> "Monk") @@
    ("Kotlin" :> "Samurai")

LANGUAGE_RACES ==
    ("Python" :> "Human") @@ ("JavaScript" :> "Halfling") @@ ("TypeScript" :> "Halfling") @@
    ("Java" :> "Dwarf") @@ ("C++" :> "Orc") @@ ("C" :> "Orc") @@
    ("Go" :> "Elf") @@ ("Rust" :> "Dwarf") @@ ("Ruby" :> "Gnome") @@
    ("PHP" :> "Undead") @@ ("C#" :> "Human") @@ ("Swift" :> "Elf") @@
    ("Kotlin" :> "Half-Elf")

Character(name) ==
    [name            |-> name,
     level           |-> 1,
     xp              |-> 0,
     hp              |-> 100,
     max_hp          |-> 100,
     character_class |-> "Commoner",
     race            |-> "Unknown",
     inventory       |-> << >>,
     stats           |-> [total_commits           |-> 0,
                          total_damage_dealt      |-> 0,
                          mobs_defeated           |-> 0,
                          items_collected         |-> 0,
                          merge_requests_approved |-> 0],
     current_mob     |-> None]

\* primary_language keeping the last of the keys with the greatest weight
primary_language_last(language_stats) ==
    LET n == Len(language_stats)
        i == CHOOSE i \in 1 .. n :
                 /\ \A j \in 1 .. n : language_stats[j][2] <= language_stats[i][2]
                 /\ \A j \in (i + 1) .. n : language_stats[j][2] < language_stats[i][2]
    IN  language_stats[i][1]

\* max(language_stats, key=language_stats.get): language_stats is the sequence
\* of the dict's <<language, weight>> pairs in its iteration order, and max
\* keeps the first of the keys with the greatest weight
primary_language(language_stats) ==
    LET n == Len(language_stats)
        i == CHOOSE i \in 1 .. n :
                 /\ \A j \in 1 .. n : language_stats[j][2] <= language_stats[i][2]
                 /\ \A j \in 1 .. (i - 1) : language_stats[j][2] < language_stats[i][2]
    IN  language_stats[i][1]

\* determine_class_race going back to the class and race of a new character
\* when there are no languages
determine_class_race_reset(c, language_stats) ==
    IF language_stats = << >>
    THEN [c EXCEPT !.character_class = "Commoner", !.race = "Unknown"]
    ELSE LET lang == primary_language(language_stats)
         IN  [c EXCEPT !.character_class = dict_get(LANGUAGE_CLASSES, lang, "Adventurer"),
                       !.race = dict_get(LANGUAGE_RACES, lang, "Human")]

\* Character.determine_class_race
determine_class_race(c, language_stats) ==
    IF language_stats = << >>
    THEN c
    ELSE LET lang == primary_language(language_stats)
         IN  [c EXCEPT !.character_class = dict_get(LANGUAGE_CLASSES, lang, "Adventurer"),
                       !.race = dict_get(LANGUAGE_RACES, lang, "Human")]

\* xp_for_next_level() is the real 100 * level ** 1.5; its square is an integer
xp_for_next_level_sq(level) == 10000 * level * level * level

\* self.xp >= self.xp_for_next_level(), for an integer xp
xp_reached(c) == c.xp >= 0 /\ c.xp * c.xp >= xp_for_next_level_sq(c.level)

\* int(self.xp_for_next_level())
xp_needed(level) ==
    int_sqrt(xp_for_next_level_sq(level), 100 * level, (100 * level * level) + 1)

\* level_up drawing the increase of max_hp from 5 .. 20
level_up_big_roll(c, rnd) ==
    LET hp_increase == randint(rnd, 5, 20)
    IN  [c EXCEPT !.xp     = @ - xp_needed(c.level),
                  !.level  = @ + 1,
                  !.max_hp = @ + hp_increase,
                  !.hp     = c.max_hp + hp_increase]

\* level_up with round() for int(): the nearest integer, not the floor
level_up_rounded(c, rnd) ==
    LET hp_increase == randint(rnd, 5, 15)
        d == xp_needed(c.level)
        rounded == IF ((2 * d) + 1) * ((2 * d) + 1) <= 4 * xp_for_next_level_sq(c.level)
                   THEN d + 1
                   ELSE d
    IN  [c EXCEPT !.xp     = @ - rounded,
                  !.level  = @ + 1,
                  !.max_hp = @ + hp_increase,
                  !.hp     = c.max_hp + hp_increase]

\* level_up that leaves xp as it was
level_up_keep_xp(c, rnd) ==
    LET hp_increase == randint(rnd, 5, 15)
    IN  [c EXCEPT !.level  = @ + 1,
                  !.max_hp = @ + hp_increase,
                  !.hp     = c.max_hp + hp_increase]

\* level_up resetting xp to 0
level_up_reset_xp(c, rnd) ==
    LET hp_increase == randint(rnd, 5, 15)
    IN  [c EXCEPT !.xp     = 0,
                  !.level  = @ + 1,
                  !.max_hp = @ + hp_increase,
                  !.hp     = c.max_hp + hp_increase]

\* level_up that raises max_hp and leaves hp as it was
level_up_no_heal(c, rnd) ==
    LET hp_increase == randint(rnd, 5, 15)
    IN  [c EXCEPT !.xp     = @ - xp_needed(c.level),
                  !.level  = @ + 1,
                  !.max_hp = @ + hp_increase]

\* Character.level_up
level_up(c, rnd) ==
    LET hp_increase == randint(rnd, 5, 15)
    IN  [c EXCEPT !.xp     = @ - xp_needed(c.level),
                  !.level  = @ + 1,
                  !.max_hp = @ + hp_increase,
                  !.hp     = c.max_hp + hp_increase]

\* what add_xp's loop shows of the character at one point
Snap(c) == [level |-> c.level, xp |-> c.xp, hp |-> c.hp, max_hp |-> c.max_hp]

\* add_xp with "if" for "while": at most one level_up
level_loop_once(c, rnd, trace) ==
    IF xp_reached(c)
    THEN LET c1 == level_up(c, rnd)
         IN  [c |-> c1, trace |-> Append(trace, Snap(c1))]
    ELSE [c |-> c, trace |-> trace]

\* the while loop of add_xp: the character it ends with, and the character
\* as it was on entry and after every level_up
RECURSIVE level_loop(_, _, _)
level_loop(c, rnd, trace) ==
    IF xp_reached(c)
    THEN LET c1 == level_up(c, rnd)
         IN  level_loop(c1, rnd, Append(trace, Snap(c1)))
    ELSE [c |-> c, trace |-> trace]

\* Character.add_xp
add_xp(c, amount, rnd) ==
    LET c1 == [c EXCEPT !.xp = @ + amount]
    IN  level_loop(c1, rnd, <<Snap(c1)>>)

mob_types ==
    << <<"Goblin", 20, 1>>,
       <<"Skeleton", 30, 2>>,
       <<"Orc", 50, 3>>,
       <<"Troll", 80, 4>>,
       <<"Dragon", 150, 5>> >>

\* suitable_mobs letting in the mobs two levels above the character
suitable_mobs_wide(c) ==
    LET suitable(m) == m[3] <= c.level + 2
    IN  SelectSeq(mob_types, suitable)

\* the suitable_mobs of spawn_mob
suitable_mobs(c) ==
    LET suitable(m) == m[3] <= c.level + 1
    IN  SelectSeq(mob_types, suitable)

\* Character.spawn_mob
spawn_mob(c, rnd) ==
    IF suitable_mobs(c) # << >>
    THEN LET mob_data == choice(rnd, suitable_mobs(c))
             hp == mob_data[2] + (c.level * 5)
         IN  [c EXCEPT !.current_mob = Some(Mob(mob_data[1], hp, hp, mob_data[3]))]
    ELSE c

\* add_item putting the item in front
add_item_front(c, item) ==
    [c EXCEPT !.inventory = <<item>> \o @,
              !.stats.items_collected = @ + 1]

\* add_item that appends the item and does not count it
add_item_uncounted(c, item) ==
    [c EXCEPT !.inventory = Append(@, item)]

\* Character.add_item
add_item(c, item) ==
    [c EXCEPT !.inventory = Append(@, item),
              !.stats.items_collected = @ + 1]

item_types == <<"weapon", "armor", "consumable">>

\* the names of _generate_random_item
drop_names(item_type) ==
    IF item_type = "weapon"
    THEN <<"Rusty Sword", "Wooden Staff", "Short Bow", "Iron Dagger">>
    ELSE IF item_type = "armor"
    THEN <<"Leather Cap", "Cloth Armor", "Wooden Shield", "Iron Boots">>
    ELSE <<"Health Potion", "Mana Potion", "Scroll of Knowledge">>

\* Character._generate_random_item
generate_random_item(c, rnd) ==
    LET item_type == choice(rnd, item_types)
        power == randint(rnd, 1, 10) + c.level
    IN  Item(choice(rnd, drop_names(item_type)), item_type, power,
             "A " \o item_type \o " found after battle")

prefixes == <<"Legendary", "Epic", "Rare", "Magical", "Enchanted">>

\* the base_names of add_special_item
base_names(item_type) ==
    IF item_type = "weapon"
    THEN <<"Sword", "Axe", "Staff", "Bow", "Dagger">>
    ELSE IF item_type = "armor"
    THEN <<"Helmet", "Chestplate", "Boots", "Shield", "Gauntlets">>
    ELSE <<"Potion", "Elixir", "Scroll", "Tome", "Amulet">>

\* add_special_item embedding the whole title
add_special_item_whole_title(c, mr_title, rnd) ==
    LET item_type == choice(rnd, item_types)
        power == randint(rnd, 5, 20) + (c.level * 2)
        prefix == choice(rnd, prefixes)
        item_name == prefix \o " " \o choice(rnd, base_names(item_type))
        item == Item(item_name, item_type, power,
                     "Forged from the approval: " \o mr_title)
        c1 == add_item(c, item)
    IN  [c   |-> [c1 EXCEPT !.stats.merge_requests_approved = @ + 1],
         ret |-> Some(item)]

\* Character.add_special_item: the character it leaves and the item returned
add_special_item(c, mr_title, rnd) ==
    LET item_type == choice(rnd, item_types)
        power == randint(rnd, 5, 20) + (c.level * 2)
        prefix == choice(rnd, prefixes)
        item_name == prefix \o " " \o choice(rnd, base_names(item_type))
        item == Item(item_name, item_type, power,
                     "Forged from the approval: " \o Take(mr_title, 50))
        c1 == add_item(c, item)
    IN  [c   |-> [c1 EXCEPT !.stats.merge_requests_approved = @ + 1],
         ret |-> Some(item)]

(***************************************************************************)
(* Character.to_dict and Character.from_dict.  A dict is a function of its *)
(* keys; None and the empty dict are both the empty function, and both are *)
(* false in "if mob_data:".                                                *)
(***************************************************************************)
\* the fields of the dataclasses: Item(**d) and Mob(**d) raise TypeError
\* unless the keys of d are exactly these
ItemFields == {"name", "type", "power", "description"}

MobFields == {"name", "hp", "max_hp", "level"}

\* Item.to_dict: asdict(self)
item_to_dict(item) ==
    ("name" :> item.name) @@ ("type" :> item.type) @@ ("power" :> item.power) @@
    ("description" :> item.description)

\* Character.to_dict
to_dict(c) ==
    ("name" :> c.name) @@ ("level" :> c.level) @@ ("xp" :> c.xp) @@ ("hp" :> c.hp) @@
    ("max_hp" :> c.max_hp) @@ ("character_class" :> c.character_class) @@
    ("race" :> c.race) @@
    ("inventory" :> [i \in 1 .. Len(c.inventory) |-> item_to_dict(c.inventory[i])]) @@
    ("stats" :> c.stats) @@
    ("current_mob" :>
        IF c.current_mob # None
        THEN ("name" :> c.current_mob[1].name) @@ ("hp" :> c.current_mob[1].hp) @@
             ("max_hp" :> c.current_mob[1].max_hp) @@ ("level" :> c.current_mob[1].level)
        ELSE None)

\* from_dict giving the mob back all its hp
from_dict_mob_healed(data) ==
    LET inventory == dict_get(data, "inventory", << >>)
        mob_data == dict_get(data, "current_mob", None)
        raised == \/ \E i \in 1 .. Len(inventory) : DOMAIN inventory[i] # ItemFields
                  \/ mob_data # None /\ DOMAIN mob_data # MobFields
        char == [Character(dict_get(data, "name", "Adventurer")) EXCEPT
                    !.level = dict_get(data, "level", 1),
                    !.xp = dict_get(data, "xp", 0),
                    !.hp = dict_get(data, "hp", 100),
                    !.max_hp = dict_get(data, "max_hp", 100),
                    !.character_class = dict_get(data, "character_class", "Commoner"),
                    !.race = dict_get(data, "race", "Unknown"),
                    !.inventory =
                        [i \in 1 .. Len(inventory) |->
                            Item(inventory[i].name, inventory[i].type,
                                 inventory[i].power, inventory[i].description)],
                    !.stats = dict_get(data, "stats", Character("").stats),
                    !.current_mob =
                        IF mob_data # None
                        THEN Some(Mob(mob_data.name, mob_data.max_hp, mob_data.max_hp,
                                      mob_data.level))
                        ELSE None]
    IN  IF raised THEN [raised |-> TRUE, c |-> None] ELSE [raised |-> FALSE, c |-> char]

\* Character.from_dict, data being a dict: whether it raised (the TypeError
\* of Item(**item_data) or Mob(**mob_data)) and the character it returned
from_dict(data) ==
    LET inventory == dict_get(data, "inventory", << >>)
        mob_data == dict_get(data, "current_mob", None)
        raised == \/ \E i \in 1 .. Len(inventory) : DOMAIN inventory[i] # ItemFields
                  \/ mob_data # None /\ DOMAIN mob_data # MobFields
        char == [Character(dict_get(data, "name", "Adventurer")) EXCEPT
                    !.level = dict_get(data, "level", 1),
                    !.xp = dict_get(data, "xp", 0),
                    !.hp = dict_get(data, "hp", 100),
                    !.max_hp = dict_get(data, "max_hp", 100),
                    !.character_class = dict_get(data, "character_class", "Commoner"),
                    !.race = dict_get(data, "race", "Unknown"),
                    !.inventory =
                        [i \in 1 .. Len(inventory) |->
                            Item(inventory[i].name, inventory[i].type,
                                 inventory[i].power, inventory[i].description)],
                    !.stats = dict_get(data, "stats", Character("").stats),
                    !.current_mob =
                        IF mob_data # None
                        THEN Some(Mob(mob_data.name, mob_data.hp, mob_data.max_hp,
                                      mob_data.level))
                        ELSE None]
    IN  IF raised THEN [raised |-> TRUE, c |-> None] ELSE [raised |-> FALSE, c |-> char]

\* What one call did: the character it leaves, the value it returns, whether
\* it raised, the mob as take_damage left it and what take_damage returned,
\* the amounts passed to add_xp and what add_xp's loop showed, and what the
\* tests "random.random() < 0.3" of the call gave (none, but on a defeat).
Outcome(c, ret, raised, hit, defeated, xp_calls, trace) ==
    [c |-> c, ret |-> ret, raised |-> raised, hit |-> hit, defeated |-> defeated,
     xp_calls |-> xp_calls, trace |-> trace, drops |-> << >>]

\* on_defeat spawning the new mob first and granting the xp of its level
on_defeat_xp_of_new_mob(c, hit, rnd) ==
    LET c1 == spawn_mob([c EXCEPT !.stats.mobs_defeated = @ + 1], rnd)
        xp_gained == c1.current_mob[1].level * 25
        x == add_xp(c1, xp_gained, rnd)
        item == IF drop_chance(rnd) THEN Some(generate_random_item(x.c, rnd)) ELSE None
        c2 == IF item # None THEN add_item(x.c, item[1]) ELSE x.c
    IN  [Outcome(c2, item, FALSE, hit, TRUE, <<xp_gained>>, x.trace)
             EXCEPT !.drops = <<drop_chance(rnd)>>]

\* on_defeat making the item before the xp is granted
on_defeat_drop_first(c, hit, rnd) ==
    LET c1 == [c EXCEPT !.stats.mobs_defeated = @ + 1]
        xp_gained == c1.current_mob[1].level * 25
        item == IF drop_chance(rnd) THEN Some(generate_random_item(c1, rnd)) ELSE None
        x == add_xp(c1, xp_gained, rnd)
        c2 == IF item # None THEN add_item(x.c, item[1]) ELSE x.c
    IN  [Outcome(spawn_mob(c2, rnd), item, FALSE, hit, TRUE, <<xp_gained>>, x.trace)
             EXCEPT !.drops = <<drop_chance(rnd)>>]

\* on_defeat dropping an item whatever random.random() gives
on_defeat_always_drop(c, hit, rnd) ==
    LET c1 == [c EXCEPT !.stats.mobs_defeated = @ + 1]
        xp_gained == c1.current_mob[1].level * 25
        x == add_xp(c1, xp_gained, rnd)
        item == Some(generate_random_item(x.c, rnd))
        c2 == add_item(x.c, item[1])
    IN  [Outcome(spawn_mob(c2, rnd), item, FALSE, hit, TRUE, <<xp_gained>>, x.trace)
             EXCEPT !.drops = <<drop_chance(rnd)>>]

\* attack_mob from "if defeated:" on, c being the character with the hit applied
on_defeat(c, hit, rnd) ==
    LET c1 == [c EXCEPT !.stats.mobs_defeated = @ + 1]
        xp_gained == c1.current_mob[1].level * 25
        x == add_xp(c1, xp_gained, rnd)
        item == IF drop_chance(rnd) THEN Some(generate_random_item(x.c, rnd)) ELSE None
        c2 == IF item # None THEN add_item(x.c, item[1]) ELSE x.c
    IN  [Outcome(spawn_mob(c2, rnd), item, FALSE, hit, TRUE, <<xp_gained>>, x.trace)
             EXCEPT !.drops = <<drop_chance(rnd)>>]

\* on_attack counting only the hp the mob lost
on_attack_clamped(c, damage, rnd) ==
    IF c.current_mob = None
    THEN Outcome(c, None, TRUE, None, FALSE, << >>, << >>)
    ELSE LET td == take_damage(c.current_mob[1], damage)
             c1 == [c EXCEPT !.current_mob = Some(td.mob),
                             !.stats.total_damage_dealt =
                                 @ + (c.current_mob[1].hp - td.mob.hp)]
         IN  IF td.defeated
             THEN on_defeat(c1, Some(td.mob), rnd)
             ELSE Outcome(c1, None, FALSE, Some(td.mob), FALSE, << >>, << >>)

\* attack_mob from the call of take_damage on, c being the character after
\* the spawn of a missing mob
on_attack(c, damage, rnd) ==
    IF c.current_mob = None
    THEN \* None has no take_damage: AttributeError
         Outcome(c, None, TRUE, None, FALSE, << >>, << >>)
    ELSE LET td == take_damage(c.current_mob[1], damage)
             c1 == [c EXCEPT !.current_mob = Some(td.mob),
                             !.stats.total_damage_dealt = @ + damage]
         IN  IF td.defeated
             THEN on_defeat(c1, Some(td.mob), rnd)
             ELSE Outcome(c1, None, FALSE, Some(td.mob), FALSE, << >>, << >>)

\* attack_mob without the spawn of a missing mob
attack_mob_no_spawn(c, damage, rnd) == on_attack(c, damage, rnd)

\* Character.attack_mob
attack_mob(c, damage, rnd) ==
    on_attack(IF c.current_mob = None THEN spawn_mob(c, rnd) ELSE c, damage, rnd)

(***************************************************************************)
(* sync_with_gitlab (src/committed.py).  The client is what its three      *)
(* fetches answer during the sync: a value, or a failure, which is an      *)
(* exception raised by the fetch.  rnds is the random module during the    *)
(* sync: its calls of attack_mob and add_special_item draw from rnds in    *)
(* turn, beginning again at its end.                                       *)
(***************************************************************************)
\* a fetch that raises requests.exceptions.RequestException
Failed == [ok |-> FALSE, value |-> << >>]

\* a fetch that returns value
Ok(value) == [ok |-> TRUE, value |-> value]

\* the sync so far: the character, whether an exception is on its way out,
\* and the calls of attack_mob and add_special_item made, each with its
\* argument and the level of the character when it returned
Sync(c, raised, log) == [c |-> c, raised |-> raised, log |-> log]

\* the random module during the next call of the sync
next_rnd(rnds, log) == rnds[(Len(log) % Len(rnds)) + 1]

\* sum(c.get('commit_count', 1) for c in commits)
RECURSIVE sum_commit_count(_)
sum_commit_count(commits) ==
    IF commits = << >>
    THEN 0
    ELSE dict_get(Head(commits), "commit_count", 1) + sum_commit_count(Tail(commits))

\* the body of "for _ in range(commit_count)" with the damage of level 1
one_commit_damage_of_start(st, rnds) ==
    LET rnd == next_rnd(rnds, st.log)
        damage == 12
        c1 == IF st.c.current_mob = None THEN spawn_mob(st.c, rnd) ELSE st.c
        o == attack_mob(c1, damage, rnd)
    IN  Sync(o.c, o.raised,
             Append(st.log, [op |-> "attack_mob", arg |-> damage, level |-> o.c.level]))

\* the body of "for _ in range(commit_count)": one attack_mob
one_commit(st, rnds) ==
    LET rnd == next_rnd(rnds, st.log)
        damage == 10 + (st.c.level * 2)
        c1 == IF st.c.current_mob = None THEN spawn_mob(st.c, rnd) ELSE st.c
        o == attack_mob(c1, damage, rnd)
    IN  Sync(o.c, o.raised,
             Append(st.log, [op |-> "attack_mob", arg |-> damage, level |-> o.c.level]))

\* for _ in range(n)
RECURSIVE for_range(_, _, _)
for_range(st, n, rnds) ==
    IF n <= 0 \/ st.raised
    THEN st
    ELSE for_range(one_commit(st, rnds), n - 1, rnds)

\* for commit in commits
RECURSIVE for_commits(_, _, _)
for_commits(st, commits, rnds) ==
    IF commits = << >> \/ st.raised
    THEN st
    ELSE for_commits(for_range(st, dict_get(Head(commits), "commit_count", 1), rnds),
                     Tail(commits), rnds)

\* for approval in approvals
RECURSIVE for_approvals(_, _, _)
for_approvals(st, approvals, rnds) ==
    IF approvals = << >> \/ st.raised
    THEN st
    ELSE LET title == dict_get(Head(approvals), "target_title", "Unknown MR")
             o == add_special_item(st.c, title, next_rnd(rnds, st.log))
         IN  for_approvals(
                 Sync(o.c, FALSE,
                      Append(st.log, [op |-> "add_special_item", arg |-> title,
                                      level |-> o.c.level])),
                 Tail(approvals), rnds)

\* sync_with_gitlab from "approvals = client.get_approved_merge_requests" on
sync_approvals(client, st, rnds) ==
    IF st.raised
    THEN st
    ELSE IF ~client.approvals.ok
    THEN Sync(st.c, TRUE, st.log)
    ELSE for_approvals(st, client.approvals.value, rnds)

\* sync_with_gitlab from "commits = client.get_recent_commits" on
sync_commits(client, st, rnds) ==
    IF st.raised
    THEN st
    ELSE IF ~client.commits.ok
    THEN Sync(st.c, TRUE, st.log)
    ELSE LET commits == client.commits.value
             total_commits == sum_commit_count(commits)
         IN  IF total_commits > 0
             THEN for_commits(
                      Sync([st.c EXCEPT !.stats.total_commits = @ + total_commits],
                           FALSE, st.log),
                      commits, rnds)
             ELSE st

\* sync_with_gitlab up to the commits: the class and race of a Commoner
sync_class(client, c) ==
    IF c.character_class = "Commoner"
    THEN IF ~client.language_stats.ok
         THEN Sync(c, TRUE, << >>)
         ELSE IF client.language_stats.value # << >>
         THEN Sync(determine_class_race(c, client.language_stats.value), FALSE, << >>)
         ELSE Sync(c, FALSE, << >>)
    ELSE Sync(c, FALSE, << >>)

\* sync_with_gitlab: an exception of a fetch goes out of it as it is, with
\* the character as the calls before it left it
sync_with_gitlab(client, c, rnds) ==
    sync_approvals(client, sync_commits(client, sync_class(client, c), rnds), rnds)

(***************************************************************************)
(* The inputs of the calls.                                                *)
(***************************************************************************)
\* the random module during one call: every randint falls at position roll
\* of its range and every choice at position pick, here the two ends
RandomInputs == [roll : {0, RandomScale}, pick : {0, RandomScale}, drop : BOOLEAN]

\* the same for a call that draws only with randint (add_xp), only with
\* choice (spawn_mob), and with no random() (add_special_item)
RollInputs == {rnd \in RandomInputs : rnd.pick = 0 /\ ~rnd.drop}

PickInputs == {rnd \in RandomInputs : rnd.roll = 0 /\ ~rnd.drop}

RollPickInputs == {rnd \in RandomInputs : ~rnd.drop}

LanguageInputs ==
    { << >>,
      << <<"Python", 65>>, <<"JavaScript", 20>>, <<"Go", 15>> >>,
      << <<"COBOL", 5>>, <<"Rust", 5>> >> }

XpInputs == {0, 75, 400, 1000}

\* no damage, the damage of one commit (committed.py), a blow no mob
\* survives and, when there is a mob, exactly its remaining hp
DamageInputs(c) ==
    {0, 10 + (c.level * 2), 10000}
    \cup (IF c.current_mob = None THEN {} ELSE {c.current_mob[1].hp})

ItemInputs ==
    { Item("Gift", "consumable", 0, "") }

TitleInputs ==
    { "Fix critical bug in payment processing",
      "Rework the synchronisation of approvals and commits with the server" }

(***************************************************************************)
(* The state machine: a character, the last call made on it and the number *)
(* of calls made.                                                          *)
(***************************************************************************)
\* the record of a call: its name, its argument (0 when it has none) and
\* what it did
Call(op, arg, o) ==
    [op |-> op, arg |-> arg, ret |-> o.ret, raised |-> o.raised, hit |-> o.hit,
     defeated |-> o.defeated, xp_calls |-> o.xp_calls, trace |-> o.trace,
     drops |-> o.drops]

\* a call that returns nothing and calls neither take_damage nor add_xp
Plain(c) == Outcome(c, None, FALSE, None, FALSE, << >>, << >>)

\* GameState.__init__: no character, here a reference to the object the
\* variable character holds, and no last_sync
GameState == [character |-> None, last_sync |-> None]

\* no file at the path save_file
Absent == [exists |-> FALSE]

\* the call o of op with arg is made
Do(op, arg, o) ==
    /\ calls < MaxCalls
    /\ calls' = calls + 1
    /\ character' = o.c
    /\ last' = Call(op, arg, o)
    /\ UNCHANGED <<game_state, save_file, pc, stored>>

Init ==
    /\ character = Character("Brave Adventurer")
    /\ last = Call("init", 0, Plain(character))
    /\ calls = 0
    /\ game_state = GameState
    /\ save_file = Absent
    /\ pc = "idle"
    /\ stored = Absent

DetermineClassRace ==
    \E language_stats \in LanguageInputs :
        Do("determine_class_race", language_stats,
           Plain(determine_class_race(character, language_stats)))

AddXp ==
    \E amount \in XpInputs, rnd \in RollInputs :
        LET x == add_xp(character, amount, rnd)
        IN  Do("add_xp", amount, Outcome(x.c, None, FALSE, None, FALSE, <<amount>>, x.trace))

SpawnMob ==
    \E rnd \in PickInputs :
        Do("spawn_mob", 0, Plain(spawn_mob(character, rnd)))

AttackMob ==
    \E damage \in DamageInputs(character), rnd \in RandomInputs :
        Do("attack_mob", damage, attack_mob(character, damage, rnd))

AddItem ==
    \E item \in ItemInputs :
        Do("add_item", 0, Plain(add_item(character, item)))

AddSpecialItem ==
    \E mr_title \in TitleInputs, rnd \in RollPickInputs :
        LET o == add_special_item(character, mr_title, rnd)
        IN  Do("add_special_item", mr_title,
               Outcome(o.c, o.ret, FALSE, None, FALSE, << >>, << >>))

Next ==
    \/ DetermineClassRace
    \/ AddXp
    \/ SpawnMob
    \/ AttackMob
    \/ AddItem
    \/ AddSpecialItem

Spec == Init /\ [][Next]_vars

(***************************************************************************)
(* The Character under the calls of Spec and of sync_with_gitlab.          *)
(***************************************************************************)
\* what the fetches of one sync answer
LanguageStatsInputs ==
    { Failed, Ok(<< >>), Ok(<< <<"Python", 65>>, <<"JavaScript", 20>>, <<"Go", 15>> >>) }

\* records of push events: commit_count is 0 for a push that creates or
\* deletes a branch, and a record may come without it
CommitsInputs ==
    { Failed, Ok(<< >>), Ok(<< ("commit_count" :> 2) >>),
      Ok(<< ("commit_count" :> 3), << >>, ("commit_count" :> 0), ("commit_count" :> 3) >>) }

ApprovalsInputs ==
    { Failed, Ok(<< >>),
      Ok(<< ("target_title" :> "Fix critical bug in payment processing"), << >> >>) }

\* a fetch that fails is followed by fetches that fail: the three fetches
\* of a sync go to one server
ClientInputs ==
    { client \in [language_stats : LanguageStatsInputs, commits : CommitsInputs,
                  approvals : ApprovalsInputs] :
          /\ ~client.language_stats.ok => ~client.commits.ok
          /\ ~client.commits.ok => ~client.approvals.ok }

\* the random module during one sync
SyncRandomInputs ==
    { << [roll |-> 0, pick |-> 0, drop |-> FALSE] >>,
      << [roll |-> RandomScale, pick |-> RandomScale, drop |-> TRUE] >>,
      << [roll |-> 0, pick |-> RandomScale, drop |-> TRUE],
         [roll |-> RandomScale, pick |-> 0, drop |-> FALSE] >> }

\* the record of a call of sync_with_gitlab
SyncCall(client, s) ==
    [op |-> "sync_with_gitlab", arg |-> client, ret |-> None, raised |-> s.raised,
     hit |-> None, defeated |-> FALSE, xp_calls |-> << >>, trace |-> << >>,
     drops |-> << >>, log |-> s.log]

SyncWithGitlab ==
    /\ calls < MaxSyncCalls
    /\ \E client \in ClientInputs, rnds \in SyncRandomInputs :
           LET s == sync_with_gitlab(client, character, rnds)
           IN  /\ character' = s.c
               /\ last' = SyncCall(client, s)
    /\ calls' = calls + 1
    /\ UNCHANGED <<game_state, save_file, pc, stored>>

\* a call of a method of Spec
MethodCall == calls < MaxSyncCalls /\ Next

SyncNext ==
    \/ MethodCall
    \/ SyncWithGitlab

SyncSpec == Init /\ [][SyncNext]_vars

(***************************************************************************)
(* GameState (src/game_state.py) and main (src/committed.py).  The save    *)
(* file is absent or holds a text, which is not JSON or is a JSON value;   *)
(* json.load gives the value with its type, as the code goes on by the     *)
(* type: .get is a method of a dict only.  Below the key "character" the   *)
(* values are the Python values of to_dict.  A write to the file succeeds. *)
(* The character of a GameState and the character of main are one object:  *)
(* what main does to it, it does to both.                                  *)
(***************************************************************************)
\* a text that json.load cannot parse, or a file that open cannot read
NotJson == [type |-> "invalid"]

JsonNull == [type |-> "null"]

JsonString(str) == [type |-> "string", value |-> str]

JsonArray(seq) == [type |-> "array", value |-> seq]

\* a JSON object, dict being the function from its keys to their values
JsonObject(dict) == [type |-> "object", value |-> dict]

\* a file that holds the text
File(text) == [exists |-> TRUE, text |-> text]

\* json.dump of an Optional[str]
json_dump_optional(value) == IF value = None THEN JsonNull ELSE JsonString(value[1])

\* the Optional[str] that json.load gives for a null or a string
json_load_optional(json) == IF json.type = "null" THEN None ELSE Some(json.value)

\* the try block of load: whether it raised, and the character and the
\* last_sync it set when it did not
load_try(file) ==
    LET data == file.text
        character_data == dict_get(data.value, "character", JsonObject(<< >>))
        failed == [raised |-> TRUE, character |-> None, last_sync |-> None]
    IN  IF data.type = "invalid"
        THEN failed  \* json.load raises
        ELSE IF data.type # "object"
        THEN failed  \* data.get: AttributeError
        ELSE IF character_data.type # "object"
        THEN failed  \* from_dict, data.get: AttributeError
        ELSE IF from_dict(character_data.value).raised
        THEN failed
        ELSE [raised    |-> FALSE,
              character |-> Some(from_dict(character_data.value).c),
              last_sync |-> IF "last_sync" \in DOMAIN data.value
                            THEN json_load_optional(data.value["last_sync"])
                            ELSE None]

\* load without "except Exception"
load_unguarded(gs, file) ==
    IF file.exists /\ ~load_try(file).raised
    THEN [raised |-> FALSE, ret |-> load_try(file).character,
          game_state |-> [character |-> load_try(file).character,
                          last_sync |-> load_try(file).last_sync]]
    ELSE IF file.exists
    THEN [raised |-> TRUE, ret |-> None, game_state |-> gs]
    ELSE [raised |-> FALSE, ret |-> Some(Character("Brave Adventurer")),
          game_state |-> [gs EXCEPT !.character = Some(Character("Brave Adventurer"))]]

\* GameState.load: whether it raised, the character it returned and the
\* GameState it left
load(gs, file) ==
    IF file.exists /\ ~load_try(file).raised
    THEN [raised |-> FALSE, ret |-> load_try(file).character,
          game_state |-> [character |-> load_try(file).character,
                          last_sync |-> load_try(file).last_sync]]
    ELSE [raised |-> FALSE, ret |-> Some(Character("Brave Adventurer")),
          game_state |-> [gs EXCEPT !.character = Some(Character("Brave Adventurer"))]]

\* save writing no last_sync
save_without_last_sync(gs, file) ==
    IF gs.character = None
    THEN file
    ELSE File(JsonObject(("character" :> JsonObject(to_dict(gs.character[1]))) @@
                         ("last_sync" :> JsonNull)))

\* GameState.save: the file it leaves
save(gs, file) ==
    IF gs.character = None
    THEN file
    ELSE File(JsonObject(("character" :> JsonObject(to_dict(gs.character[1]))) @@
                         ("last_sync" :> json_dump_optional(gs.last_sync))))

\* GameState.get_last_sync
get_last_sync(gs) == gs.last_sync

\* a character that has played: classified, with xp, a dropped item, a
\* special item and a mob that has lost hp
Veteran ==
    LET rnd == [roll |-> RandomScale, pick |-> RandomScale, drop |-> TRUE]
        c1 == determine_class_race(Character("Brave Adventurer"),
                                   << <<"Python", 65>>, <<"JavaScript", 20>> >>)
        c2 == attack_mob(c1, 10000, rnd).c
        c3 == add_special_item(c2, "Fix critical bug in payment processing", rnd).c
    IN  attack_mob(c3, 12, rnd).c

\* the last_sync of the save files
Timestamp == "2024-01-15T10:30:00"

\* the save file before the first run: none, one that cannot be read, JSON
\* that is not an object, an object without "character", objects whose
\* character is not an object, has an item without description or a mob
\* with a key Mob does not have, and files that save wrote, with a
\* last_sync, with null and without the key
FileInputs ==
    { Absent,
      File(NotJson),
      File(JsonArray(<< >>)),
      File(JsonObject(<< >>)),
      File(JsonObject(("character" :> JsonString("Brave Adventurer")) @@
                      ("last_sync" :> JsonString(Timestamp)))),
      File(JsonObject(("character" :>
                          JsonObject(("name" :> "Brave Adventurer") @@
                                     ("inventory" :> << ("name" :> "Rusty Sword") @@
                                                        ("type" :> "weapon") @@
                                                        ("power" :> 3) >>))) @@
                      ("last_sync" :> JsonString(Timestamp)))),
      File(JsonObject(("character" :>
                          JsonObject(("name" :> "Brave Adventurer") @@
                                     ("current_mob" :> ("name" :> "Goblin") @@ ("hp" :> 25) @@
                                                       ("max_hp" :> 25) @@ ("level" :> 1) @@
                                                       ("xp" :> 25)))))),
      File(JsonObject(("character" :> JsonObject(to_dict(Veteran))) @@
                      ("last_sync" :> JsonString(Timestamp)))),
      File(JsonObject(("character" :> JsonObject(to_dict(Veteran))) @@
                      ("last_sync" :> JsonNull))),
      File(JsonObject("character" :> JsonObject(to_dict(Character("Brave Adventurer"))))) }

\* the record of a call of main on its GameState
StateCall(op, raised, ret) ==
    [op |-> op, arg |-> 0, ret |-> ret, raised |-> raised, hit |-> None,
     defeated |-> FALSE, xp_calls |-> << >>, trace |-> << >>, drops |-> << >>]

\* the program is started for the first time over a save file
SessionInit ==
    /\ save_file \in FileInputs
    /\ stored = save_file
    /\ pc = "start"
    /\ game_state = GameState
    /\ character = None
    /\ last = StateCall("init", FALSE, None)
    /\ calls = 0

\* main: game_state = GameState(); character = game_state.load()
Load ==
    /\ pc = "start"
    /\ LET l == load(game_state, save_file)
       IN  /\ game_state' = l.game_state
           /\ character' = IF l.raised THEN character ELSE l.ret[1]
           /\ last' = StateCall("load", l.raised, l.ret)
           /\ pc' = IF l.raised THEN "crashed" ELSE "loaded"
    /\ UNCHANGED <<calls, save_file, stored>>

\* main: if not character.current_mob: character.spawn_mob()
EnsureMob ==
    /\ pc = "loaded"
    /\ \E rnd \in PickInputs :
           character' = IF character.current_mob = None
                        THEN spawn_mob(character, rnd)
                        ELSE character
    /\ game_state' = [game_state EXCEPT !.character = Some(character')]
    /\ last' = IF character.current_mob = None
               THEN StateCall("spawn_mob", FALSE, None)
               ELSE last
    /\ pc' = "menu"
    /\ UNCHANGED <<calls, save_file, stored>>

\* main, choice 5: sync_with_gitlab(client, character, last_sync) and
\* game_state.save(); an exception of the sync ends the program
MenuSync ==
    /\ pc = "menu"
    /\ calls < MaxSyncs
    /\ \E client \in ClientInputs, rnds \in SyncRandomInputs :
           LET s == sync_with_gitlab(client, character, rnds)
               gs == [game_state EXCEPT !.character = Some(s.c)]
           IN  /\ character' = s.c
               /\ game_state' = gs
               /\ last' = SyncCall(client, s)
               /\ save_file' = IF s.raised THEN save_file ELSE save(gs, save_file)
               /\ pc' = IF s.raised THEN "crashed" ELSE "menu"
    /\ calls' = calls + 1
    /\ UNCHANGED stored

\* main, choice 0: game_state.save() and the end of the loop
MenuExit ==
    /\ pc = "menu"
    /\ save_file' = save(game_state, save_file)
    /\ last' = StateCall("save", FALSE, None)
    /\ pc' = "exited"
    /\ UNCHANGED <<character, calls, game_state, stored>>

\* the program is started again, over the save file as the last run left it
NextRun ==
    /\ pc \in {"exited", "crashed"}
    /\ pc' = "start"
    /\ game_state' = GameState
    /\ character' = None
    /\ UNCHANGED <<last, calls, save_file, stored>>

SessionNext ==
    \/ Load
    \/ EnsureMob
    \/ MenuSync
    \/ MenuExit
    \/ NextRun

SessionSpec == SessionInit /\ [][SessionNext]_vars

(***************************************************************************)
(* GitLabClient (src/gitlab_client.py) and the server it asks.  The server *)
(* holds the events of the user, each with the instant it was created at,  *)
(* and answers a request for the events of an action with those of them    *)
(* created after the instant "after", when the request has one.  In        *)
(* ResyncSpec main runs against a server on which nothing new happens and  *)
(* which answers every request.                                            *)
(***************************************************************************)
\* the instants of the model, in their order: ISO 8601 strings are ordered
\* as the instants they name
Instants == <<"2024-01-10T09:00:00", Timestamp, "2024-01-20T12:00:00">>

\* created_at is after since
After(created_at, since) ==
    \E i, j \in 1 .. Len(Instants) :
        /\ Instants[i] = created_at
        /\ Instants[j] = since
        /\ i > j

\* the events of the user on the server: two pushes of commits, one before
\* and one after Timestamp, the push of a new branch and an approval
ServerEvents ==
    << ("action_name" :> "pushed to") @@ ("created_at" :> Instants[1]) @@
       ("project_id" :> 7) @@ ("push_data" :> ("commit_count" :> 2) @@ ("ref" :> "main")),
       ("action_name" :> "pushed new") @@ ("created_at" :> Instants[3]) @@
       ("project_id" :> 7) @@ ("push_data" :> ("commit_count" :> 0) @@ ("ref" :> "topic")),
       ("action_name" :> "pushed to") @@ ("created_at" :> Instants[3]) @@
       ("project_id" :> 7) @@ ("push_data" :> ("commit_count" :> 1) @@ ("ref" :> "topic")),
       ("action_name" :> "approved") @@ ("created_at" :> Instants[3]) @@
       ("project_id" :> 7) @@ ("target_title" :> "Add authentication system") >>

\* the languages of the projects of the user on the server
ServerLanguages == << <<"Python", 65>>, <<"JavaScript", 20>>, <<"Go", 15>> >>

\* GET /users/:id/events with params: all the pages of the events of the
\* action, created after params["after"] when params has it
events_api(params) ==
    LET wanted(event) ==
            /\ \/ params["action"] = "pushed" /\
                       event["action_name"] \in {"pushed to", "pushed new"}
               \/ params["action"] = "approved" /\ event["action_name"] = "approved"
            /\ "after" \in DOMAIN params => After(event["created_at"], params["after"])
    IN  SelectSeq(ServerEvents, wanted)

\* base_params: {'action': action}, with 'after' if since
base_params(action, since) ==
    IF since # None
    THEN ("action" :> action) @@ ("after" :> since[1])
    ELSE ("action" :> action)

\* GitLabClient.get_recent_commits
get_recent_commits(since) ==
    LET events == events_api(base_params("pushed", since))
        pushed_to(event) == dict_get(event, "action_name", "") = "pushed to"
        pushes == SelectSeq(events, pushed_to)
    IN  [i \in 1 .. Len(pushes) |->
            LET push_data == dict_get(pushes[i], "push_data", << >>)
            IN  ("commit_count" :> dict_get(push_data, "commit_count", 1)) @@
                ("created_at" :> dict_get(pushes[i], "created_at", None)) @@
                ("project" :> dict_get(pushes[i], "project_id", None)) @@
                ("ref" :> dict_get(push_data, "ref", None))]

\* GitLabClient.get_approved_merge_requests
get_approved_merge_requests(since) ==
    LET events == events_api(base_params("approved", since))
        \* 'approved' in event.get('action_name', '').lower()
        approved(event) == dict_get(event, "action_name", "") = "approved"
        approvals == SelectSeq(events, approved)
    IN  [i \in 1 .. Len(approvals) |->
            ("target_title" :> dict_get(approvals[i], "target_title", None)) @@
            ("created_at" :> dict_get(approvals[i], "created_at", None)) @@
            ("project" :> dict_get(approvals[i], "project_id", None))]

\* GitLabClient.get_language_stats
get_language_stats == ServerLanguages

\* what the fetches of the client answer in a sync that is given last_sync
GitLabClient(last_sync) ==
    [language_stats |-> Ok(get_language_stats),
     commits        |-> Ok(get_recent_commits(last_sync)),
     approvals      |-> Ok(get_approved_merge_requests(last_sync))]

\* main, choice 5: last_sync = game_state.get_last_sync(),
\* sync_with_gitlab(client, character, last_sync) and game_state.save()
MenuResync ==
    /\ pc = "menu"
    /\ calls < MaxResyncs
    /\ \E rnds \in SyncRandomInputs :
           LET last_sync == get_last_sync(game_state)
               client == GitLabClient(last_sync)
               s == sync_with_gitlab(client, character, rnds)
               gs == [game_state EXCEPT !.character = Some(s.c)]
           IN  /\ character' = s.c
               /\ game_state' = gs
               /\ last' = SyncCall(client, s)
               /\ save_file' = IF s.raised THEN save_file ELSE save(gs, save_file)
               /\ pc' = IF s.raised THEN "crashed" ELSE "menu"
    /\ calls' = calls + 1
    /\ UNCHANGED stored

ResyncNext ==
    \/ Load
    \/ EnsureMob
    \/ MenuResync
    \/ MenuExit
    \/ NextRun

ResyncSpec == SessionInit /\ [][ResyncNext]_vars

(***************************************************************************)
(* One call of add_xp, statement by statement: pc is "idle" before the     *)
(* call, "while" at the test of the loop and "returned" after the call.    *)
(***************************************************************************)
\* a character of the level with the xp, who rolled 5 at every level_up
Levelled(level, xp) ==
    [Character("Brave Adventurer") EXCEPT !.level = level,
                                          !.xp = xp,
                                          !.hp = 100 + (5 * (level - 1)),
                                          !.max_hp = 100 + (5 * (level - 1))]

\* the amounts of AddXpSpec: nothing, the xp of the mobs of levels 1 and 5,
\* and amounts worth several levels
AmountInputs == {0, 25, 125, 1000, 5000}

AddXpInit ==
    /\ \E level \in 1 .. MaxLevel :
           \E xp \in {0, xp_needed(level) - 1} : character = Levelled(level, xp)
    /\ last = Call("init", 0, Plain(character))
    /\ calls = 0
    /\ game_state = GameState
    /\ save_file = Absent
    /\ pc = "idle"
    /\ stored = Absent

\* add_xp is called: self.xp += amount
AddXpEnter ==
    /\ pc = "idle"
    /\ \E amount \in AmountInputs :
           /\ character' = [character EXCEPT !.xp = @ + amount]
           /\ last' = Call("add_xp", amount,
                            Outcome(character', None, FALSE, None, FALSE, <<amount>>,
                                    <<Snap(character')>>))
    /\ calls' = calls + 1
    /\ pc' = "while"
    /\ UNCHANGED <<game_state, save_file, stored>>

\* the test of the loop holds: self.level_up()
AddXpLevelUp ==
    /\ pc = "while"
    /\ xp_reached(character)
    /\ \E rnd \in RollInputs : character' = level_up(character, rnd)
    /\ last' = [last EXCEPT !.trace = Append(@, Snap(character'))]
    /\ UNCHANGED <<calls, game_state, save_file, pc, stored>>

\* the test of the loop fails: add_xp returns
AddXpReturn ==
    /\ pc = "while"
    /\ ~xp_reached(character)
    /\ pc' = "returned"
    /\ UNCHANGED <<character, last, calls, game_state, save_file, stored>>

AddXpNext ==
    \/ AddXpEnter
    \/ AddXpLevelUp
    \/ AddXpReturn

\* a call that has begun goes on statement by statement
AddXpSpec == AddXpInit /\ [][AddXpNext]_vars /\ WF_vars(AddXpLevelUp) /\ WF_vars(AddXpReturn)

(***************************************************************************)
(* The claims.  A step of Spec is one call; last' is its record, character *)
(* the character before it and character' the character after it.          *)
(***************************************************************************)
\* the call of this step is attack_mob and it returned
Attacked == last'.op = "attack_mob" /\ ~last'.raised

\* the mob a returning attack_mob hit, as it was before the hit: the current
\* mob, or the mob spawned for the attack when there was none
Target ==
    IF character.current_mob # None
    THEN character.current_mob[1]
    ELSE [last'.hit[1] EXCEPT !.hp = last'.hit[1].max_hp]

\* C1: whenever add_xp has returned, called directly or through attack_mob
\* with an amount >= 0, 0 <= xp < xp_for_next_level(level): xp is an integer
\* and xp_for_next_level(level) the square root of 10000 * level^3.
C1_XpBelowNextLevel ==
    last.xp_calls # << >> =>
        /\ \A i \in 1 .. Len(last.xp_calls) : last.xp_calls[i] >= 0
        /\ 0 <= character.xp
        /\ character.xp * character.xp
               < 10000 * character.level * character.level * character.level
        /\ last.trace[Len(last.trace)] = Snap(character)

\* C1 witness: a second or later call of add_xp whose loop levelled up twice
C1_Witness ==
    /\ last.op = "add_xp"
    /\ calls >= 2
    /\ Len(last.trace) >= 3

\* C2, one step: level and the five counters do not decrease, and the
\* inventory before the step is a prefix of the inventory after it
C2_Step ==
    /\ character'.level >= character.level
    /\ DOMAIN character'.stats =
          {"total_commits", "total_damage_dealt", "mobs_defeated",
           "items_collected", "merge_requests_approved"}
    /\ \A k \in DOMAIN character'.stats : character'.stats[k] >= character.stats[k]
    /\ Len(character'.inventory) >= Len(character.inventory)
    /\ SubSeq(character'.inventory, 1, Len(character.inventory)) = character.inventory

\* C2: no call of determine_class_race, add_xp, spawn_mob, attack_mob,
\* add_item or add_special_item decreases level or one of the five counters
\* of stats, or removes or moves an item of the inventory.
C2_NeverDecrease == [][C2_Step]_vars

\* C2 witness: two items collected, a level gained and a mob defeated
C2_Witness ==
    /\ Len(character.inventory) >= 2
    /\ character.inventory[1] # character.inventory[2]
    /\ character.level >= 2
    /\ character.stats.mobs_defeated >= 1

\* C3: every level_up of a call's add_xp raised max_hp by 5 .. 15 and set hp
\* to the new max_hp; so a call that levelled up k >= 1 times leaves
\* hp = max_hp, with max_hp grown by 5k .. 15k.
C3_LevelUpHp ==
    LET t == last.trace
        k == Len(t) - 1
    IN  k >= 1 =>
            /\ \A i \in 2 .. Len(t) :
                   /\ t[i].max_hp - t[i - 1].max_hp \in 5 .. 15
                   /\ t[i].hp = t[i].max_hp
            /\ character.level = t[1].level + k
            /\ character.hp = character.max_hp
            /\ character.max_hp - t[1].max_hp \in (5 * k) .. (15 * k)

\* C3 witness: an add_xp that levelled up three times
C3_Witness ==
    /\ last.op = "add_xp"
    /\ Len(last.trace) = 4

\* C4: after every attack_mob the call has returned and current_mob is
\* present with hp > 0.
C4_MobAliveAfterAttack ==
    last.op = "attack_mob" =>
        /\ ~last.raised
        /\ character.current_mob # None
        /\ character.current_mob[1].hp > 0

\* C4 witness: the first call is an attack_mob, with no mob yet, that
\* defeats the mob spawned for it
C4_Witness ==
    /\ calls = 1
    /\ last.op = "attack_mob"
    /\ last.defeated
    /\ last.hit[1].hp = 0

\* C5, one step: an attack_mob with damage >= the hp of its target
C5_Step ==
    (Attacked /\ last'.arg >= Target.hp) =>
        /\ character'.stats.mobs_defeated = character.stats.mobs_defeated + 1
        /\ last'.xp_calls = <<25 * Target.level>>
        /\ last'.trace[1].xp = character.xp + (25 * Target.level)
        /\ character'.current_mob # None

\* C5: an attack_mob whose damage is at least the remaining hp of the mob
\* raises mobs_defeated by exactly 1, calls add_xp exactly once, with 25
\* times the level of the defeated mob, and leaves a current_mob.
C5_Defeat == [][C5_Step]_vars

\* C5 witness: a defeat after which the new mob is of another level than
\* the defeated one
C5_Witness ==
    /\ last.op = "attack_mob"
    /\ last.defeated
    /\ character.current_mob # None
    /\ character.current_mob[1].level # last.hit[1].level

\* C6, one step: attack_mob adds its damage to total_damage_dealt
C6_Step ==
    Attacked =>
        /\ last'.arg >= 0
        /\ character'.stats.total_damage_dealt =
              character.stats.total_damage_dealt + last'.arg

\* C6: every attack_mob with damage >= 0 raises total_damage_dealt by exactly
\* damage, whether or not the mob is defeated and whatever hp it had left.
C6_FullDamageCounted == [][C6_Step]_vars

\* C6 witness: a mob already hurt is defeated by a blow of more than all
\* the hp it ever had
C6_Witness ==
    /\ last.op = "attack_mob"
    /\ last.defeated
    /\ last.arg > last.hit[1].max_hp
    /\ character.stats.total_damage_dealt > last.arg
    /\ character.stats.mobs_defeated = 1

\* C7, one step: an attack_mob on a present mob with 0 <= damage < mob.hp
C7_Step ==
    (/\ last'.op = "attack_mob"
     /\ character.current_mob # None
     /\ 0 <= last'.arg
     /\ last'.arg < character.current_mob[1].hp) =>
        /\ ~last'.raised
        /\ last'.ret = None
        /\ character'.current_mob =
              Some([character.current_mob[1] EXCEPT !.hp = @ - last'.arg])
        /\ character'.level = character.level
        /\ character'.xp = character.xp
        /\ character'.hp = character.hp
        /\ character'.max_hp = character.max_hp
        /\ character'.inventory = character.inventory
        /\ character'.stats.mobs_defeated = character.stats.mobs_defeated
        /\ character'.stats.items_collected = character.stats.items_collected

\* C7: an attack_mob that does not defeat the present mob returns None and
\* leaves the same mob with hp lower by exactly damage and name, max_hp and
\* level as they were, and level, xp, hp, max_hp, inventory, mobs_defeated
\* and items_collected of the character as they were.
C7_NoDefeatFrame == [][C7_Step]_vars

\* C7 witness: a second hit with damage > 0 that a mob survives
C7_Witness ==
    /\ last.op = "attack_mob"
    /\ ~last.defeated
    /\ last.arg > 0
    /\ character.current_mob # None
    /\ character.current_mob[1].hp + last.arg < character.current_mob[1].max_hp

\* 0 <= hp <= max_hp, of an optional mob
HpInRange(mob) == mob # None => (0 <= mob[1].hp /\ mob[1].hp <= mob[1].max_hp)

\* C8, one step: the current mob and the mob take_damage worked on have
\* 0 <= hp <= max_hp before and after; take_damage leaves name, max_hp and
\* level; an attack the mob survives leaves the mob take_damage left; and a
\* call other than spawn_mob and attack_mob leaves the mob alone
C8_Step ==
    /\ HpInRange(character.current_mob) /\ HpInRange(last.hit)
    /\ HpInRange(character'.current_mob) /\ HpInRange(last'.hit)
    /\ Attacked =>
          /\ last'.hit # None
          /\ [last'.hit[1] EXCEPT !.hp = Target.hp] = Target
          /\ ~last'.defeated => character'.current_mob = last'.hit
    /\ last'.op \notin {"spawn_mob", "attack_mob"} =>
          character'.current_mob = character.current_mob

\* C8: every mob has 0 <= hp <= max_hp in every state, and its max_hp
\* never changes after its spawn.
C8_MobHpInRange == [][C8_Step]_vars

\* C8 witness: a mob that has lost hp twice and is still alive
C8_Witness ==
    /\ last.op = "attack_mob"
    /\ character.current_mob # None
    /\ character.current_mob[1].hp > 0
    /\ character.current_mob[1].max_hp - character.current_mob[1].hp > last.arg
    /\ last.arg > 0
    /\ character.stats.mobs_defeated = 0
    /\ calls = 3

\* C9, one step: what take_damage did in an attack_mob
C9_Step ==
    Attacked =>
        LET before == Target.hp
            after == last'.hit[1].hp
        IN  /\ after = (IF before - last'.arg > 0 THEN before - last'.arg ELSE 0)
            /\ last'.defeated <=> (after = 0)

\* C9: take_damage(damage), damage >= 0, sets hp to max(0, hp - damage) and
\* returns true if and only if the hp it leaves is 0.
C9_TakeDamage == [][C9_Step]_vars

\* C9 witness: a mob at full hp is hit by exactly its hp
C9_Witness ==
    /\ last.op = "attack_mob"
    /\ last.defeated
    /\ last.arg = last.hit[1].max_hp

\* the catalog of C10: <<name, base hp, level>>
C10_Catalog ==
    { <<"Goblin", 20, 1>>, <<"Skeleton", 30, 2>>, <<"Orc", 50, 3>>,
      <<"Troll", 80, 4>>, <<"Dragon", 150, 5>> }

\* the mob is a new mob of the catalog for a character of this level
C10_Fresh(mob, level) ==
    \E a \in C10_Catalog :
        /\ a[3] <= level + 1
        /\ mob = [name |-> a[1], hp |-> a[2] + (5 * level),
                  max_hp |-> a[2] + (5 * level), level |-> a[3]]

\* C10: at every level some mob of the catalog is eligible, and a spawn_mob,
\* called or made by attack_mob, leaves as current_mob a mob
\* of the catalog of level <= L + 1 with hp = max_hp = base hp + 5 * L, L
\* being the level of the character, whatever mob there was.
C10_Spawn ==
    /\ suitable_mobs(character) # << >>
    /\ (last.op = "spawn_mob" \/ (last.op = "attack_mob" /\ last.defeated)) =>
          /\ character.current_mob # None
          /\ C10_Fresh(character.current_mob[1], character.level)
    /\ (last.op = "attack_mob" /\ calls = 1) =>
          \* the mob spawned for the first attack of the new character, of
          \* level 1, as it was before the hit
          C10_Fresh([last.hit[1] EXCEPT !.hp = @ + Min(last.arg, last.hit[1].max_hp)], 1)

\* C10 witness: spawn_mob is called at a level above 1 over a mob that has
\* lost hp and was not defeated
C10_Witness ==
    /\ last.op = "spawn_mob"
    /\ character.level >= 2
    /\ character.stats.total_damage_dealt > 0
    /\ character.stats.mobs_defeated = 0

\* C11, one step: what add_special_item(title) returned and did
C11_Step ==
    last'.op = "add_special_item" =>
        /\ ~last'.raised
        /\ last'.ret # None
        /\ LET item == last'.ret[1]
               title == last'.arg
               shown == IF Len(title) <= 50 THEN title ELSE SubSeq(title, 1, 50)
           IN  /\ character'.inventory = character.inventory \o <<item>>
               /\ item.power >= 5 + (2 * character.level)
               /\ item.power <= 20 + (2 * character.level)
               /\ item.description = "Forged from the approval: " \o shown
               /\ Len(item.description) = 26 + Min(50, Len(title))
        /\ character'.stats =
              [character.stats EXCEPT !.items_collected = @ + 1,
                                      !.merge_requests_approved = @ + 1]
        /\ character'.level = character.level
        /\ character'.xp = character.xp
        /\ character'.hp = character.hp
        /\ character'.max_hp = character.max_hp
        /\ character'.current_mob = character.current_mob

\* C11: every add_special_item(title) returns an item, appends exactly that
\* item as the last element of the inventory, raises items_collected and
\* merge_requests_approved by exactly 1 each, gives the item a power in
\* 5 + 2 * level .. 20 + 2 * level and a description that embeds exactly the
\* first 50 characters of title, and leaves level, xp, hp, max_hp,
\* current_mob and the other three counters as they were.
C11_SpecialItem == [][C11_Step]_vars

\* C11 witness: a special item from a title of more than 50 characters, for
\* a character above level 1 that held an item already
C11_Witness ==
    /\ last.op = "add_special_item"
    /\ Len(last.arg) > 50
    /\ character.level >= 2
    /\ Len(character.inventory) = 2
    /\ character.inventory[2] = last.ret[1]
    /\ character.inventory[1] # last.ret[1]

\* C12, one step: what determine_class_race(language_stats) did
C12_Step ==
    last'.op = "determine_class_race" =>
        LET language_stats == last'.arg
            n == Len(language_stats)
        IN  IF n = 0
            THEN character' = character
            ELSE \E i \in 1 .. n :
                    LET language == language_stats[i][1]
                    IN  /\ \A j \in 1 .. n : language_stats[j][2] <= language_stats[i][2]
                        /\ \A j \in 1 .. (i - 1) : language_stats[j][2] # language_stats[i][2]
                        /\ character' =
                              [character EXCEPT
                                  !.character_class =
                                      IF language \in DOMAIN LANGUAGE_CLASSES
                                      THEN LANGUAGE_CLASSES[language] ELSE "Adventurer",
                                  !.race =
                                      IF language \in DOMAIN LANGUAGE_RACES
                                      THEN LANGUAGE_RACES[language] ELSE "Human"]
                        /\ language = "Python" =>
                              /\ character'.character_class = "Wizard"
                              /\ character'.race = "Human"

\* C12: determine_class_race(language_stats) changes nothing when
\* language_stats is empty; otherwise it sets character_class and race to the
\* table entries of the language with the greatest weight, the first of them
\* in the order of the mapping when several have it, "Adventurer" and "Human"
\* when the tables do not have the language, whatever class and race were set.
C12_ClassRace == [][C12_Step]_vars

\* C12 witness: two languages unknown to one or both tables share the
\* greatest weight, and the character had levelled up before
C12_Witness ==
    /\ last.op = "determine_class_race"
    /\ Len(last.arg) = 2
    /\ last.arg[1][2] = last.arg[2][2]
    /\ character.character_class = "Adventurer"
    /\ character.race = "Human"
    /\ character.level >= 2

\* C14: for every reachable character c, from_dict(to_dict(c)) does not
\* raise and has the name, level, xp, hp, max_hp, character_class, race, the
\* five values of stats, the items of the inventory in their order and the
\* current_mob (its four fields, or its absence) of c.
C14_RoundTrip ==
    LET r == from_dict(to_dict(character))
        d == r.c
    IN  /\ ~r.raised
        /\ d.name = character.name
        /\ d.level = character.level
        /\ d.xp = character.xp
        /\ d.hp = character.hp
        /\ d.max_hp = character.max_hp
        /\ d.character_class = character.character_class
        /\ d.race = character.race
        /\ \A k \in {"total_commits", "total_damage_dealt", "mobs_defeated",
                      "items_collected", "merge_requests_approved"} :
               d.stats[k] = character.stats[k]
        /\ Len(d.inventory) = Len(character.inventory)
        /\ \A i \in 1 .. Len(character.inventory) :
               /\ d.inventory[i].name = character.inventory[i].name
               /\ d.inventory[i].type = character.inventory[i].type
               /\ d.inventory[i].power = character.inventory[i].power
               /\ d.inventory[i].description = character.inventory[i].description
        /\ (d.current_mob = None) <=> (character.current_mob = None)
        /\ character.current_mob # None =>
               /\ d.current_mob[1].name = character.current_mob[1].name
               /\ d.current_mob[1].hp = character.current_mob[1].hp
               /\ d.current_mob[1].max_hp = character.current_mob[1].max_hp
               /\ d.current_mob[1].level = character.current_mob[1].level

\* C14 witness: a classified character with two different items and a mob
\* that has lost a part of its hp
C14_Witness ==
    /\ Len(character.inventory) = 2
    /\ character.inventory[1] # character.inventory[2]
    /\ character.current_mob # None
    /\ character.current_mob[1].hp < character.current_mob[1].max_hp
    /\ character.current_mob[1].hp > 0
    /\ character.stats.total_damage_dealt > 0

\* C20: in every add_xp, a level-up step is taken at level L exactly when
\* xp >= 100 * L^1.5 (xp^2 >= 10000 * L^3); the step subtracts
\* floor(100 * L^1.5) from xp, the integer d with d^2 <= 10000 * L^3 <
\* (d + 1)^2 (100, 282, 519, 800 at L = 1, 2, 3, 4), keeping the remainder,
\* and raises level by exactly 1.
C20_LevelUpXp ==
    LET t == last.trace
    IN  \A i \in 2 .. Len(t) :
            LET L == t[i - 1].level
                d == t[i - 1].xp - t[i].xp
            IN  /\ t[i - 1].xp * t[i - 1].xp >= 10000 * L * L * L
                /\ t[i].level = L + 1
                /\ d >= 0
                /\ d * d <= 10000 * L * L * L
                /\ (d + 1) * (d + 1) > 10000 * L * L * L
                /\ L = 1 => d = 100
                /\ L = 2 => d = 282
                /\ L = 3 => d = 519
                /\ L = 4 => d = 800
                /\ t[i].xp = t[i - 1].xp - d

\* C20 witness: an add_xp that levelled up from 1 to 2 to 3, with xp left
\* over after each step
C20_Witness ==
    /\ last.xp_calls # << >>
    /\ Len(last.trace) >= 3
    /\ last.trace[1].level = 1
    /\ last.trace[2].xp > 0
    /\ last.trace[3].xp > 0
    /\ last.trace[3].level = 3

\* C19, one iteration of the loop of add_xp: level rises by exactly 1 and xp
\* falls by at least 100 and stays >= 0, so that a call that begins with xp
\* makes at most xp / 100 iterations
C19_Iteration ==
    (pc = "while" /\ pc' = "while") =>
        /\ character'.level = character.level + 1
        /\ character'.xp >= 0
        /\ character'.xp <= character.xp - 100

\* C19: at every level >= 1 and for every amount >= 0, add_xp returns: its
\* loop makes finitely many iterations, each raising level by exactly 1.
C19_Terminates ==
    /\ [][C19_Iteration]_vars
    /\ (pc = "while") ~> (pc = "returned")

\* C19 witness: add_xp returned after five iterations of its loop or more,
\* begun above level 1 with xp just under the next level
C19_Witness ==
    /\ pc = "returned"
    /\ Len(last.trace) >= 6
    /\ last.trace[1].level >= 2
    /\ last.trace[1].xp >= 5000 + 281

\* C13, one step: a class that is not "Commoner" and a race that is not
\* "Unknown" stay so
C13_Step ==
    /\ character.character_class # "Commoner" => character'.character_class # "Commoner"
    /\ character.race # "Unknown" => character'.race # "Unknown"

\* C13: once character_class is not "Commoner" (race is not "Unknown"), no
\* call of determine_class_race, add_xp, attack_mob, spawn_mob, add_item,
\* add_special_item or sync_with_gitlab sets it back to "Commoner"
\* ("Unknown").
C13_NeverBackToCommoner == [][C13_Step]_vars

\* C13 witness: a sync that found no languages has left the class that a
\* call of determine_class_race had set before it
C13_Witness ==
    /\ last.op = "sync_with_gitlab"
    /\ ~last.raised
    /\ last.arg.language_stats = Ok(<< >>)
    /\ last.log # << >>
    /\ character.character_class = "Adventurer"
    /\ character.race = "Human"

\* the commit_count of a commit record, 1 for a record without it
C18_Count(commit) ==
    IF "commit_count" \in DOMAIN commit THEN commit["commit_count"] ELSE 1

\* the sum of the commit_count of the records
RECURSIVE C18_Sum(_)
C18_Sum(commits) ==
    IF Len(commits) = 0
    THEN 0
    ELSE C18_Sum(SubSeq(commits, 1, Len(commits) - 1)) + C18_Count(commits[Len(commits)])

\* the sum of the damage of the first n calls of a log
RECURSIVE C18_Damage(_, _)
C18_Damage(log, n) == IF n = 0 THEN 0 ELSE C18_Damage(log, n - 1) + log[n].arg

\* C18, one step: a sync whose fetches answer, over commit records C and
\* approval records A
C18_Step ==
    (/\ last'.op = "sync_with_gitlab"
     /\ character.character_class = "Commoner" => last'.arg.language_stats.ok
     /\ last'.arg.commits.ok
     /\ last'.arg.approvals.ok) =>
        LET C == last'.arg.commits.value
            A == last'.arg.approvals.value
            n == C18_Sum(C)
            log == last'.log
        IN  /\ ~last'.raised
            /\ \A i \in 1 .. Len(C) : C18_Count(C[i]) >= 0
            /\ Len(log) = n + Len(A)
            /\ \A i \in 1 .. n :
                   /\ log[i].op = "attack_mob"
                   /\ log[i].arg =
                         10 + (2 * (IF i = 1 THEN character.level ELSE log[i - 1].level))
            /\ \A i \in (n + 1) .. (n + Len(A)) : log[i].op = "add_special_item"
            /\ character'.stats.total_commits = character.stats.total_commits + n
            /\ character'.stats.total_damage_dealt =
                  character.stats.total_damage_dealt + C18_Damage(log, n)
            /\ character'.stats.merge_requests_approved =
                  character.stats.merge_requests_approved + Len(A)
            /\ Len(character'.inventory) >= Len(character.inventory) + Len(A)

\* C18: a sync_with_gitlab over commit records C and approval records A
\* makes exactly sum(commit_count over C) calls of attack_mob, each with
\* damage 10 + 2 * level for the level at that moment, raises total_commits
\* by that sum, and makes exactly |A| calls of add_special_item, so that
\* merge_requests_approved rises by |A|, all of them after the attacks.
C18_SyncCounts == [][C18_Step]_vars

\* C18 witness: a sync of 7 commits in 4 records and 2 approvals in which
\* the character levelled up between two attacks
C18_Witness ==
    /\ last.op = "sync_with_gitlab"
    /\ ~last.raised
    /\ Len(last.arg.commits.value) = 4
    /\ Len(last.log) = 9
    /\ last.log[7].op = "attack_mob"
    /\ last.log[7].arg > last.log[1].arg
    /\ last.log[9].op = "add_special_item"
    /\ character.stats.total_commits = 7

\* the save file is missing, cannot be read or parsed, or is malformed: it
\* is not an object, its character is not an object, an item of its
\* inventory has not exactly the fields of Item, or its mob has not
\* exactly the fields of Mob
C15_Malformed(file) ==
    \/ ~file.exists
    \/ file.text.type # "object"
    \/ /\ "character" \in DOMAIN file.text.value
       /\ \/ file.text.value["character"].type # "object"
          \/ LET data == file.text.value["character"].value
             IN  \/ /\ "inventory" \in DOMAIN data
                    /\ \E i \in 1 .. Len(data["inventory"]) :
                           DOMAIN data["inventory"][i] #
                               {"name", "type", "power", "description"}
                 \/ /\ "current_mob" \in DOMAIN data
                    /\ data["current_mob"] # << >>
                    /\ DOMAIN data["current_mob"] # {"name", "hp", "max_hp", "level"}

C16_LastSyncOf(file) ==
    IF /\ file.exists
       /\ file.text.type = "object"
       /\ "last_sync" \in DOMAIN file.text.value
       /\ file.text.value["last_sync"].type = "string"
    THEN <<file.text.value["last_sync"].value>>
    ELSE << >>

\* C16, one step: the program leaves the last_sync of its GameState as load
\* set it, and a save writes that value; a load that follows a save is the
\* load of the next run of the program
C16_Carried ==
    /\ pc \in {"loaded", "menu"} =>
          get_last_sync(game_state') = get_last_sync(game_state)
    /\ save_file' # save_file => C16_LastSyncOf(save_file') = game_state.last_sync

\* C16 as stated: no operation of the session changes last_sync after load
\* and save writes the value that load read, so that after any syncs and
\* saves a new load gives, as get_last_sync(), the last_sync that the save
\* file held at first.
C16_AsStated ==
    [][/\ C16_Carried
       /\ (last.op = "save" /\ last'.op = "load") =>
              get_last_sync(game_state') = C16_LastSyncOf(stored)]_vars

\* C16: no operation of the session changes last_sync after load and save
\* writes the value that load read, so that after any syncs and saves a new
\* load gives, as get_last_sync(), the value that the first load read: the
\* last_sync that the save file held at first when that load could read the
\* file, and none when it fell back to a new character.
C16_LastSyncCarried ==
    [][/\ C16_Carried
       /\ (last.op = "save" /\ last'.op = "load") =>
              get_last_sync(game_state') =
                  IF C15_Malformed(stored) THEN << >> ELSE C16_LastSyncOf(stored)]_vars

\* C16 witness: the second run has loaded, with the last_sync of the first
\* file, the character that the first run synced and saved
C16_Witness ==
    /\ last.op = "load"
    /\ pc = "loaded"
    /\ calls = 1
    /\ game_state.last_sync = <<"2024-01-15T10:30:00">>
    /\ character.stats.total_commits > 0
    /\ save_file # stored

\* C17, one step: a sync of main in which a fetch fails
C17_Step ==
    (/\ pc = "menu"
     /\ last'.op = "sync_with_gitlab"
     /\ \/ ~last'.arg.language_stats.ok
        \/ ~last'.arg.commits.ok
        \/ ~last'.arg.approvals.ok) =>
        /\ ~last'.raised
        /\ pc' = "menu"
        /\ save_file' = save(game_state', save_file)
        /\ (~last'.arg.commits.ok /\ ~last'.arg.approvals.ok) =>
              /\ last'.log = << >>
              /\ character'.stats = character.stats
              /\ character'.inventory = character.inventory
              /\ character'.current_mob = character.current_mob

\* C17: when a fetch of a sync fails, no error comes out of
\* sync_with_gitlab, which takes the fetch to have found nothing and leaves
\* the character as the other fetches make it, and the program goes on to
\* its save and back to the menu.
C17_FetchFailureIsNoEvents == [][C17_Step]_vars

\* the names of the items that drop, by type
C21_Names(type) ==
    IF type = "weapon"
    THEN {"Rusty Sword", "Wooden Staff", "Short Bow", "Iron Dagger"}
    ELSE IF type = "armor"
    THEN {"Leather Cap", "Cloth Armor", "Wooden Shield", "Iron Boots"}
    ELSE {"Health Potion", "Mana Potion", "Scroll of Knowledge"}

\* C21, one step: what an attack_mob returned and did to the inventory, the
\* list of a type having count[type] names
C21_Step(count) ==
    Attacked =>
        /\ last'.drops # << >> <=> last'.defeated
        /\ last'.ret # None <=> (last'.defeated /\ last'.drops = <<TRUE>>)
        /\ last'.ret # None =>
              LET item == last'.ret[1]
              IN  /\ character'.inventory = character.inventory \o <<item>>
                  /\ character'.stats.items_collected =
                        character.stats.items_collected + 1
                  /\ item.type \in {"weapon", "armor", "consumable"}
                  /\ item.name \in C21_Names(item.type)
                  /\ \A type \in {"weapon", "armor", "consumable"} :
                         C21_Names(type) =
                             {drop_names(type)[i] : i \in 1 .. Len(drop_names(type))}
                  /\ Len(drop_names(item.type)) = count[item.type]
                  /\ Cardinality(C21_Names(item.type)) = count[item.type]
                  /\ item.power >= 1 + character'.level
                  /\ item.power <= 10 + character'.level
        /\ last'.ret = None =>
              /\ character'.inventory = character.inventory
              /\ character'.stats.items_collected = character.stats.items_collected

C23_ItemsCounted ==
    character.stats.items_collected = Len(character.inventory)

\* C23 witness: an inventory of three items, one given to add_item, one made
\* by add_special_item and one dropped in an attack_mob
C23_Witness ==
    /\ Len(character.inventory) = 3
    /\ character.stats.items_collected = 3
    /\ character.stats.merge_requests_approved = 1
    /\ character.stats.mobs_defeated = 1
    /\ \E i \in 1 .. 3 : character.inventory[i].name = "Gift"
    /\ \E i \in 1 .. 3 : character.inventory[i].description = "A weapon found after battle"

\* floor(100 * l^1.5) for l = 1 .. 10
C24_Floor == <<100, 282, 519, 800, 1118, 1469, 1852, 2262, 2700, 3162>>

\* the sum of floor(100 * l^1.5) over the levels l = 1 .. n
RECURSIVE C24_Spent(_)
C24_Spent(n) == IF n = 0 THEN 0 ELSE C24_Spent(n - 1) + C24_Floor[n]

\* xp plus the xp that the levels gained have cost
C24_Total(c) == c.xp + C24_Spent(c.level - 1)

\* the sum of the amounts
RECURSIVE C24_Sum(_)
C24_Sum(amounts) ==
    IF amounts = << >> THEN 0 ELSE Head(amounts) + C24_Sum(Tail(amounts))

\* C24, one step: the total is 0 for the new Character and rises in a call
\* by exactly the amounts the call passed to add_xp, which are the amount
\* given in a call of add_xp, 25 times the level of the mob defeated in a
\* call of attack_mob, and none in another call
C24_Step ==
    /\ \A l \in 1 .. character'.level :
           /\ C24_Floor[l] * C24_Floor[l] <= 10000 * l * l * l
           /\ (C24_Floor[l] + 1) * (C24_Floor[l] + 1) > 10000 * l * l * l
    /\ calls = 0 => C24_Total(character) = 0
    /\ C24_Total(character') = C24_Total(character) + C24_Sum(last'.xp_calls)
    /\ last'.op = "add_xp" => last'.xp_calls = <<last'.arg>>
    /\ Attacked =>
          last'.xp_calls = IF last'.defeated THEN <<25 * Target.level>> ELSE << >>
    /\ last'.op \notin {"add_xp", "attack_mob"} => last'.xp_calls = << >>

\* C24: xp is conserved: in every state reached from a new Character, xp
\* plus the sum of floor(100 * l^1.5) over the levels l from 1 to level - 1
\* is the total of the amounts ever passed to add_xp, to which each defeat
\* of a mob adds 25 times the level of that mob and combat nothing else.
C24_XpConserved == [][C24_Step]_vars

\* C24 witness: a character who had defeated two mobs has come to level 3
\* or more, with xp left, in a call of add_xp
C24_Witness ==
    /\ last.op = "add_xp"
    /\ Len(last.trace) >= 3
    /\ character.level >= 3
    /\ character.xp > 0
    /\ character.stats.mobs_defeated = 2

\* hp = max_hp, and max_hp is 100 plus 5 .. 15 for each level gained
C25_Hp(c) ==
    /\ c.hp = c.max_hp
    /\ 100 + (5 * (c.level - 1)) <= c.max_hp
    /\ c.max_hp <= 100 + (15 * (c.level - 1))

\* C25, one step: hp and max_hp before and after a call
C25_Step ==
    /\ C25_Hp(character)
    /\ C25_Hp(character')
    /\ character'.hp >= character.hp
    /\ character'.max_hp # character.max_hp => character'.level > character.level
    /\ character'.max_hp - character.max_hp >= 5 * (character'.level - character.level)
    /\ character'.max_hp - character.max_hp <= 15 * (character'.level - character.level)

\* C25: in every state reached from a new Character by calls of its methods
\* hp = max_hp and 100 + 5 * (level - 1) <= max_hp <= 100 + 15 * (level - 1):
\* no call lowers the hp of the Character, and max_hp changes only in a call
\* that levels up, by 5 .. 15 for each level.
C25_HpIsMaxHp == [][C25_Step]_vars

\* C25 witness: a character who levelled up in two calls, with a low and
\* with a high increase of max_hp, has since hit a mob
C25_Witness ==
    /\ last.op = "attack_mob"
    /\ last.arg > 0
    /\ character.level >= 4
    /\ character.hp = character.max_hp
    /\ character.max_hp > 100 + (5 * (character.level - 1))
    /\ character.max_hp < 100 + (15 * (character.level - 1))

\* C26: an attack_mob that defeats the mob grants the xp, with its level-ups,
\* then drops the item, then spawns the new mob: when the xp takes the
\* character from level L to level L' the power of the item dropped is in
\* 1 + L' .. 10 + L', and the new mob is of a level <= L' + 1 with
\* hp = max_hp = base hp + 5 * L'.
C26_DefeatOrder ==
    (last.op = "attack_mob" /\ last.defeated) =>
        LET L == last.trace[1].level
            Lnew == last.trace[Len(last.trace)].level
        IN  /\ Lnew = L + (Len(last.trace) - 1)
            /\ character.level = Lnew
            /\ last.ret # None =>
                  /\ last.ret[1].power >= 1 + Lnew
                  /\ last.ret[1].power <= 10 + Lnew
                  /\ character.inventory[Len(character.inventory)] = last.ret[1]
            /\ character.current_mob # None
            /\ \E a \in C10_Catalog :
                   /\ a[3] <= Lnew + 1
                   /\ character.current_mob[1].name = a[1]
                   /\ character.current_mob[1].level = a[3]
                   /\ character.current_mob[1].hp = a[2] + (5 * Lnew)
                   /\ character.current_mob[1].max_hp = a[2] + (5 * Lnew)

\* C26 witness: a defeat took the character from level 1 to level 2, the
\* item dropped has the least power of level 2, and the new mob is an Orc,
\* of level 3, which level 1 could not meet
C26_Witness ==
    /\ last.op = "attack_mob"
    /\ last.defeated
    /\ last.trace[1].level = 1
    /\ character.level = 2
    /\ last.ret # None
    /\ last.ret[1].power = 3
    /\ character.current_mob = <<[name |-> "Orc", hp |-> 60, max_hp |-> 60, level |-> 3]>>

\* C22, one step: a sync of main after an earlier sync of the same
\* character, in the same run or in an earlier run that saved it, with
\* nothing new on the server in between
C22_Step ==
    (/\ pc = "menu"
     /\ last'.op = "sync_with_gitlab"
     /\ calls >= 1) =>
        /\ character'.stats.total_commits = character.stats.total_commits
        /\ character'.stats.total_damage_dealt = character.stats.total_damage_dealt
        /\ character'.stats.merge_requests_approved =
              character.stats.merge_requests_approved
        /\ character'.inventory = character.inventory

\* C22: over the syncs of one character, in one run or over save and load,
\* every commit and approval event is applied at most once: a second sync
\* with nothing new on the server since the first leaves total_commits,
\* total_damage_dealt, merge_requests_approved and the inventory as they
\* were.
C22_AppliedAtMostOnce == [][C22_Step]_vars

====
